---- MODULE Spec2Model ----
(***************************************************************************)
(* Chain state of the sidechain node (src/src/blockchain.rs) with the     *)
(* value-bearing output and Ed25519 signature instantiation               *)
(* (src/src/concrete.rs) and the identifiers of src/src/types.rs.         *)
(*                                                                         *)
(* Hashes.  SHA-256 over the bincode encoding is modelled as an injective *)
(* tagging <<"h", value>> of the hashed value; the all-zero hash          *)
(* Hash::default() is the separate value <<"zero">>.                      *)
(*                                                                         *)
(* u64.  A value is the record [hi, lo] standing for hi * 2^63 + lo with  *)
(* hi \in {0, 1} and lo far below 2^63, so that a u64 addition overflows  *)
(* exactly when the two hi parts sum to 2 and the wrapped result keeps    *)
(* (hi1 + hi2) % 2.  Sums that must not wrap (the mathematical sums the   *)
(* properties speak of) keep hi unbounded.                                 *)
(*                                                                         *)
(* Outpoints are tuples <<kind, id, vout>>.                                *)
(*                                                                         *)
(* The mempool (src/src/mempool.rs) is the variable mempool, the map from  *)
(* fee to transaction; candidate is what the last create_body returned.    *)
(*                                                                         *)
(* The deposit ingestor (src/src/client.rs) reads json_deposits, the reply *)
(* of the parent node to listsidechaindeposits; returned is what the last  *)
(* get_deposits returned.  outpoint_to_tx is a map handed to               *)
(* sort_deposits and sort_returned what the last call of it returned.      *)
(*                                                                         *)
(* main_state is the MainState of src/src/lib.rs and peg_state the         *)
(* TwoWayPegState of src/src/main_state.rs.                                *)
(***************************************************************************)
EXTENDS Integers, Sequences, FiniteSets, TLC

VARIABLES block_order, headers, bodies, transactions, outputs,
          deposit_outputs, deposits, withdrawal_outputs, unspent_outpoints,
          overflow_checks, mempool, candidate, json_deposits, returned,
          outpoint_to_tx, sort_returned, main_state, peg_state

vars == <<block_order, headers, bodies, transactions, outputs,
          deposit_outputs, deposits, withdrawal_outputs, unspent_outpoints,
          overflow_checks, mempool, candidate, json_deposits, returned,
          outpoint_to_tx, sort_returned, main_state, peg_state>>

\* the state next to the chain, the mempool and the ingestor
library == <<outpoint_to_tx, sort_returned, main_state, peg_state>>

-----------------------------------------------------------------------------
(* Bounds of the model *)

\* number of parent-chain deposits that are ever reported
MaxDeposits == 1

\* number of sidechain blocks MainState is told about
MaxMainBlocks == 2

\* number of withdrawals in the body of such a block
MaxWithdrawals == 2

\* number of mainchain outpoints, and of withdrawal outpoints, of the peg
MaxPegOutPoints == 2

\* number of refund inputs, and of deposit inputs, of a TwoWayPegChunk
MaxPegInputs == 2
\* connect_block is not called once block_order would grow beyond this
MaxOrder == 2
\* longest input list of a transaction offered to the chain
MaxInputs == 2
\* most transactions in a block body offered to the chain
MaxBodyTxs == 2
\* greatest number of transactions asked of create_body
MaxSelected == 3
\* number of deposit transactions on the parent chain
MaxReported == 3

-----------------------------------------------------------------------------
(* u64 arithmetic *)

\* 2^64 / 2^63: the number of values of the hi part of a u64
U64HiRange == 2

U64(hi, lo) == [hi |-> hi, lo |-> lo]

Zero64 == U64(0, 0)

\* a + b on u64 in a build without overflow checks
WrappingAdd(a, b) == [hi |-> (a.hi + b.hi) % U64HiRange, lo |-> a.lo + b.lo]

\* a + b leaves the u64 range
AddOverflows(a, b) == a.hi + b.hi >= U64HiRange

\* a + b over the unbounded integers
MathAdd(a, b) == [hi |-> a.hi + b.hi, lo |-> a.lo + b.lo]

\* a > b, on u64 and on unbounded sums alike
Gt(a, b) == a.hi > b.hi \/ (a.hi = b.hi /\ a.lo > b.lo)

\* checked subtraction of u64 values: the difference keeps a.lo - b.lo, which
\* may fall below 0 (2^63 - 1 is [hi |-> 1, lo |-> -1]); it underflows when it
\* is below 0 and then wraps by 2^64
CheckedSub(x, y) ==
    LET hi == x.v.hi - y.v.hi
        lo == x.v.lo - y.v.lo
        under == hi < 0 \/ (hi = 0 /\ lo < 0)
    IN  [v |-> [hi |-> IF under THEN hi + U64HiRange ELSE hi, lo |-> lo],
         ovf |-> x.ovf \/ y.ovf \/ under]

\* checked addition: [v |-> wrapped sum, ovf |-> an addition overflowed]
CheckedAdd(x, y) ==
    [v |-> WrappingAdd(x.v, y.v), ovf |-> x.ovf \/ y.ovf \/ AddOverflows(x.v, y.v)]

RECURSIVE SumFrom(_, _, _)
\* Iterator::sum over the u64 values vals[i..], folded from the left into acc
SumFrom(vals, i, acc) ==
    IF i > Len(vals) THEN acc
    ELSE SumFrom(vals, i + 1, CheckedAdd(acc, [v |-> vals[i], ovf |-> FALSE]))

Sum64(vals) == SumFrom(vals, 1, [v |-> Zero64, ovf |-> FALSE])

RECURSIVE MathSumFrom(_, _)
MathSumFrom(vals, i) ==
    IF i > Len(vals) THEN Zero64 ELSE MathAdd(vals[i], MathSumFrom(vals, i + 1))

\* the sum of a list of u64 values over the unbounded integers
MathSum(vals) == MathSumFrom(vals, 1)

Values(outs) == [i \in 1..Len(outs) |-> outs[i].value]

-----------------------------------------------------------------------------
(* Identifiers, types.rs *)

ZeroHash == <<"zero">>

Hash(data) == <<"h", data>>

Keys == {"k1", "k2"}

\* impl From<PublicKey> for Address
Address(public_key) == Hash(public_key)

Txid(transaction) == Hash(transaction)

without_signatures(transaction) == [transaction EXCEPT !.signatures = <<>>]

HeaderHash(header) == Hash(header)

compute_merkle_root(body) == Hash(body.transactions)

HeaderNew(prev_block_hash, body) ==
    [prev_block_hash |-> prev_block_hash, merkle_root |-> compute_merkle_root(body)]

Regular(txid, vout) == <<"Regular", txid, vout>>

Coinbase(block_hash, vout) == <<"Coinbase", block_hash, vout>>

Withdrawal(txid, vout) == <<"Withdrawal", txid, vout>>

\* OutPoint::Deposit(bitcoin::OutPoint): output 0 of parent transaction n
Deposit(n) == <<"Deposit", n, 0>>

-----------------------------------------------------------------------------
(* Signatures, concrete.rs *)

\* ed25519 keypair.sign(message)
Sign(key, message) == <<"sig", key, message>>

\* Signature::new: signs transaction.txid() of the transaction as passed
SignatureNew(key, transaction) ==
    [public_key |-> key, signature |-> Sign(key, Txid(transaction))]

is_valid(sig, txid_without_signatures) ==
    sig.signature = Sign(sig.public_key, txid_without_signatures)

get_address(sig) == Address(sig.public_key)

-----------------------------------------------------------------------------
(* Maps *)

EmptyMap == <<>>

Put(map, key, value) ==
    [k \in DOMAIN map \cup {key} |-> IF k = key THEN value ELSE map[k]]

RemoveKeys(map, keys) == [k \in DOMAIN map \ keys |-> map[k]]

Range(f) == {f[x] : x \in DOMAIN f}

Last(s) == s[Len(s)]

\* Vec::pop: nothing happens on an empty vector
Pop(s) == IF s = <<>> THEN s ELSE SubSeq(s, 1, Len(s) - 1)

-----------------------------------------------------------------------------
(* Chain state, blockchain.rs *)

\* BlockChain::new
NewChain ==
    [block_order |-> <<>>, headers |-> EmptyMap, bodies |-> EmptyMap,
     transactions |-> EmptyMap, outputs |-> EmptyMap,
     deposit_outputs |-> EmptyMap, deposits |-> <<>>,
     withdrawal_outputs |-> EmptyMap, unspent_outpoints |-> {}]

\* the BlockChain value held in the variables
chain ==
    [block_order |-> block_order, headers |-> headers, bodies |-> bodies,
     transactions |-> transactions, outputs |-> outputs,
     deposit_outputs |-> deposit_outputs, deposits |-> deposits,
     withdrawal_outputs |-> withdrawal_outputs,
     unspent_outpoints |-> unspent_outpoints]

is_spent(st, outpoint) == outpoint \notin st.unspent_outpoints

\* add_deposits that replaces deposit_outputs by the outputs of the chunk
add_deposits_replacing(st, deposits_chunk) ==
    [st EXCEPT
       !.unspent_outpoints = @ \cup DOMAIN deposits_chunk.outputs,
       !.deposit_outputs = deposits_chunk.outputs,
       !.deposits = @ \o deposits_chunk.deposits]

add_deposits(st, deposits_chunk) ==
    [st EXCEPT
       !.unspent_outpoints = @ \cup DOMAIN deposits_chunk.outputs,
       !.deposit_outputs =
           [o \in DOMAIN @ \cup DOMAIN deposits_chunk.outputs |->
               IF o \in DOMAIN deposits_chunk.outputs
               THEN deposits_chunk.outputs[o] ELSE @[o]],
       !.deposits = @ \o deposits_chunk.deposits]

\* the elements of tx.inputs that are keys of map, in order, mapped to the
\* values of their outputs
InputValues(map, inputs) ==
    LET found == SelectSeq(inputs, LAMBDA o : o \in DOMAIN map)
    IN  [i \in 1..Len(found) |-> map[found[i]].value]

get_inputs(st, transaction) ==
    [inputs |-> InputValues(st.outputs, transaction.inputs),
     deposit_inputs |-> InputValues(st.deposit_outputs, transaction.inputs),
     withdrawal_inputs |-> InputValues(st.withdrawal_outputs, transaction.inputs)]

\* the two sides of the comparison of Output::validate, every addition checked
ValueSides(ins, transaction) ==
    LET regular_in == Sum64(ins.inputs)
        deposit_in == Sum64(ins.deposit_inputs)
        refund_in == Sum64(ins.withdrawal_inputs)
        regular_out == Sum64(Values(transaction.outputs))
        withdrawal_out == Sum64(Values(transaction.withdrawal_outputs))
    IN  [out |-> CheckedAdd(regular_out, withdrawal_out),
         in |-> CheckedAdd(CheckedAdd(regular_in, deposit_in), refund_in)]

\* Output::validate: "true" when value out exceeds value in; an overflowing
\* addition aborts a build with overflow checks and wraps otherwise
OutValidate(ins, transaction) ==
    LET s == ValueSides(ins, transaction)
    IN  IF overflow_checks /\ (s.out.ovf \/ s.in.ovf) THEN "panic"
        ELSE IF Gt(s.out.v, s.in.v) THEN "true" ELSE "false"

\* Output::get_fee: value in minus value out
OutGetFee(ins, transaction) ==
    LET s == ValueSides(ins, transaction)
        fee == CheckedSub(s.in, s.out)
    IN  IF overflow_checks /\ fee.ovf THEN <<"panic">> ELSE <<"Ok", fee.v>>

ErrValue == "value out > value in"

ErrSpent == "output spent"

ErrSignature == "wrong signature"

ErrAddress == "addresses don't match"

ErrUnknown == "output doesn't exist"

\* the body of the loop of validate_transaction for one (outpoint, signature)
CheckInput(st, outpoint, signature, txid_without_signatures) ==
    IF is_spent(st, outpoint) THEN ErrSpent
    ELSE IF ~is_valid(signature, txid_without_signatures) THEN ErrSignature
    ELSE IF outpoint \in DOMAIN st.outputs
         THEN IF st.outputs[outpoint].address # get_address(signature)
              THEN ErrAddress ELSE "ok"
    ELSE IF outpoint \in DOMAIN st.withdrawal_outputs
         THEN IF st.withdrawal_outputs[outpoint].side_address # get_address(signature)
              THEN ErrAddress ELSE "ok"
    ELSE IF outpoint \in DOMAIN st.deposit_outputs
         THEN IF st.deposit_outputs[outpoint].address # get_address(signature)
              THEN ErrAddress ELSE "ok"
    ELSE ErrUnknown

Min(a, b) == IF a < b THEN a ELSE b

RECURSIVE CheckInputsFrom(_, _, _, _)
\* the loop over inputs.iter().zip(signatures.iter()), from pair i on
CheckInputsFrom(st, transaction, txid_without_signatures, i) ==
    IF i > Min(Len(transaction.inputs), Len(transaction.signatures)) THEN "ok"
    ELSE LET r == CheckInput(st, transaction.inputs[i], transaction.signatures[i],
                             txid_without_signatures)
         IN  IF r # "ok" THEN r
             ELSE CheckInputsFrom(st, transaction, txid_without_signatures, i + 1)

\* "ok", one of the error strings, or "panic"
\* validate_transaction that verifies the signatures over the txid of the
\* transaction as it is, signatures included
validate_transaction_signed_txid(st, transaction) ==
    LET v == OutValidate(get_inputs(st, transaction), transaction)
    IN  IF v = "panic" THEN "panic"
        ELSE IF v = "true" THEN ErrValue
        ELSE CheckInputsFrom(st, transaction, Txid(transaction), 1)

validate_transaction(st, transaction) ==
    LET v == OutValidate(get_inputs(st, transaction), transaction)
    IN  IF v = "panic" THEN "panic"
        ELSE IF v = "true" THEN ErrValue
        ELSE CheckInputsFrom(st, transaction,
                             Txid(without_signatures(transaction)), 1)

get_fee(st, transaction) == OutGetFee(get_inputs(st, transaction), transaction)

get_best_block_hash(st) ==
    IF st.block_order = <<>> THEN ZeroHash ELSE Last(st.block_order)

RECURSIVE ValidateTxsFrom(_, _, _)
ValidateTxsFrom(st, txs, i) ==
    IF i > Len(txs) THEN "true"
    ELSE LET r == validate_transaction(st, txs[i])
         IN  IF r = "panic" THEN "panic"
             ELSE IF r # "ok" THEN "false"
             ELSE ValidateTxsFrom(st, txs, i + 1)

\* validate_block without the comparison of the merkle root
validate_block_unchecked_root(st, header, body) ==
    IF header.prev_block_hash # get_best_block_hash(st) THEN "false"
    ELSE ValidateTxsFrom(st, body.transactions, 1)

\* "true", "false", or "panic" when a value sum aborts
validate_block_result(st, header, body) ==
    IF header.prev_block_hash # get_best_block_hash(st) THEN "false"
    ELSE IF header.merkle_root # compute_merkle_root(body) THEN "false"
    ELSE ValidateTxsFrom(st, body.transactions, 1)

validate_block(st, header, body) == validate_block_result(st, header, body) = "true"

\* OutPoint::Regular { txid, vout } for every vout of a list of n outputs
OutPointsOf(kind, txid, n) == {<<kind, txid, vout>> : vout \in 0..(n - 1)}

\* map with list[vout] inserted under every outpoint of keys
InsertOutputs(map, keys, list) ==
    [o \in DOMAIN map \cup keys |-> IF o \in keys THEN list[o[3] + 1] ELSE map[o]]

\* one iteration of the loop of connect_block over body.transactions
ConnectTx(st, header, body, tx) ==
    LET txid == Txid(tx)
        regular == OutPointsOf("Regular", txid, Len(tx.outputs))
        withdrawal == OutPointsOf("Withdrawal", txid, Len(tx.withdrawal_outputs))
        block_hash == HeaderHash(header)
    IN  [st EXCEPT
           !.transactions = Put(@, txid, tx),
           !.unspent_outpoints = ((@ \ Range(tx.inputs)) \cup regular) \cup withdrawal,
           !.outputs = InsertOutputs(@, regular, tx.outputs),
           !.withdrawal_outputs = InsertOutputs(@, withdrawal, tx.withdrawal_outputs),
           !.headers = Put(@, block_hash, header),
           !.bodies = Put(@, block_hash, body),
           !.block_order = Append(@, block_hash)]

RECURSIVE ConnectFrom(_, _, _, _)
ConnectFrom(st, header, body, i) ==
    IF i > Len(body.transactions) THEN st
    ELSE ConnectFrom(ConnectTx(st, header, body, body.transactions[i]), header, body, i + 1)

connect_block(st, header, body) == ConnectFrom(st, header, body, 1)

\* one iteration of the loop of disconnect_block over body.transactions
DisconnectTx(st, tx) ==
    LET txid == Txid(tx)
        regular == OutPointsOf("Regular", txid, Len(tx.outputs))
        withdrawal == OutPointsOf("Withdrawal", txid, Len(tx.withdrawal_outputs))
    IN  [st EXCEPT
           !.unspent_outpoints = ((@ \cup Range(tx.inputs)) \ regular) \ withdrawal,
           !.outputs = RemoveKeys(@, regular),
           !.withdrawal_outputs = RemoveKeys(@, withdrawal),
           !.transactions = RemoveKeys(@, {txid})]

RECURSIVE DisconnectFrom(_, _, _)
DisconnectFrom(st, body, i) ==
    IF i > Len(body.transactions) THEN st
    ELSE DisconnectFrom(DisconnectTx(st, body.transactions[i]), body, i + 1)

disconnect_block(st, header, body) ==
    LET undone == DisconnectFrom(st, body, 1)
        block_hash == HeaderHash(header)
    IN  [undone EXCEPT
           !.bodies = RemoveKeys(@, {block_hash}),
           !.headers = RemoveKeys(@, {block_hash}),
           !.block_order = Pop(@)]

-----------------------------------------------------------------------------
(* Mempool, mempool.rs *)

\* no call of create_body has returned yet
NoBody == <<"none">>

\* MemPool::insert: BTreeMap::insert(fee, transaction).is_some()
insert(pool, fee, transaction) ==
    [transactions |-> Put(pool, fee, transaction), returned |-> fee \in DOMAIN pool]

RECURSIVE Descending(_)
\* BTreeMap::iter().rev(): the keys from the greatest to the least
Descending(fees) ==
    IF fees = {} THEN <<>>
    ELSE LET greatest == CHOOSE f \in fees : \A g \in fees \ {f} : Gt(f, g)
         IN  <<greatest>> \o Descending(fees \ {greatest})

\* Iterator::take
Take(s, num) == SubSeq(s, 1, Min(num, Len(s)))

\* MemPool::create_body: <<"Ok", body>>, or <<"panic">> when the sum of the
\* fees overflows in a build with overflow checks
create_body(pool, coinbase_address, num) ==
    LET selected == Take(Descending(DOMAIN pool), num)
        fee == Sum64(selected)
    IN  IF overflow_checks /\ fee.ovf THEN <<"panic">>
        ELSE <<"Ok", [coinbase |-> <<[address |-> coinbase_address, value |-> fee.v]>>,
                      transactions |-> [i \in 1..Len(selected) |-> pool[selected[i]]]]>>

-----------------------------------------------------------------------------
(* Deposit ingestor, client.rs *)

\* bitcoin::OutPoint of the parent chain
ParentOutPoint(txid, vout) == <<txid, vout>>

\* a parent-chain transaction of one input and one output; its txid is its
\* number on the parent chain
ParentTx(txid, previous_output, value) ==
    [txid |-> txid, input |-> <<previous_output>>, output |-> <<value>>]

\* get_deposits has not been called yet
NotCalled == <<"none">>

\* Option::None
None == <<>>

\* Option::Some(x)
Some(x) == <<x>>

Reverse(s) == [i \in 1..Len(s) |-> s[Len(s) + 1 - i]]

\* the keys of a HashMap in the order an iteration visits them: order lists
\* every possible key
Iteration(map, order) == SelectSeq(order, LAMBDA key : key \in DOMAIN map)

\* tx.output[vout].value
BurnValue(tx, vout) == tx.output[vout + 1]

\* the first loop of sort_deposits for one entry of the map
SortVisit(acc, deposit_txs, outpoint) ==
    LET tx == deposit_txs[outpoint]
        spending == SelectSeq(tx.input, LAMBDA previous : previous \in DOMAIN deposit_txs)
        spent_by == [o \in DOMAIN acc.spent_by \cup Range(spending) |->
                        IF o \in Range(spending) THEN outpoint ELSE acc.spent_by[o]]
    IN  [spent_by |-> spent_by,
         sorted_deposits |->
            IF spending # <<>> THEN acc.sorted_deposits
            ELSE Append(acc.sorted_deposits,
                        [outpoint |-> outpoint, total |-> BurnValue(tx, outpoint[2])])]

RECURSIVE SortVisitFrom(_, _, _, _)
SortVisitFrom(acc, deposit_txs, visits, i) ==
    IF i > Len(visits) THEN acc
    ELSE SortVisitFrom(SortVisit(acc, deposit_txs, visits[i]), deposit_txs, visits, i + 1)

RECURSIVE SortFollow(_, _, _, _, _)
\* the while loop of sort_deposits; <<"diverges">> when it is still running
\* after more turns than the map has entries
SortFollow(deposit_txs, spent_by, outpoint, sorted_deposits, turns) ==
    IF outpoint \notin DOMAIN spent_by THEN <<"Ok", sorted_deposits>>
    ELSE IF turns > Cardinality(DOMAIN deposit_txs) THEN <<"diverges">>
    ELSE LET next == spent_by[outpoint]
         IN  IF next \in DOMAIN deposit_txs
             THEN SortFollow(deposit_txs, spent_by, next,
                             Append(sorted_deposits,
                                    [outpoint |-> next,
                                     total |-> BurnValue(deposit_txs[next], next[2])]),
                             turns + 1)
             ELSE <<"diverges">>

\* sort_deposits that lists the deposits as the iteration visits them
sort_deposits_as_visited(deposit_txs, order) ==
    <<"Ok", [i \in 1..Len(Iteration(deposit_txs, order)) |->
               [outpoint |-> Iteration(deposit_txs, order)[i],
                total |-> BurnValue(deposit_txs[Iteration(deposit_txs, order)[i]],
                                    Iteration(deposit_txs, order)[i][2])]]>>

\* sort_deposits on the map deposit_txs (deposits in the source):
\* <<"Ok", list>>, <<"panic">> when sorted_deposits[0] does not
\* exist, <<"diverges">> when the while loop does not end
sort_deposits(deposit_txs, order) ==
    IF DOMAIN deposit_txs = {} THEN <<"Ok", <<>>>>
    ELSE LET first == SortVisitFrom([spent_by |-> EmptyMap, sorted_deposits |-> <<>>],
                                    deposit_txs, Iteration(deposit_txs, order), 1)
         IN  IF first.sorted_deposits = <<>> THEN <<"panic">>
             ELSE SortFollow(deposit_txs, first.spent_by, first.sorted_deposits[1].outpoint,
                             first.sorted_deposits, 1)

\* the body of the loop of get_deposits, crediting the whole burn value
IngestOneWholeValue(acc, deposit) ==
    IF deposit.form # "ok" \/ Gt(acc.prev_value, BurnValue(deposit.tx, deposit.nburnindex))
    THEN acc
    ELSE [state |-> acc.state,
          prev_value |-> BurnValue(deposit.tx, deposit.nburnindex),
          outpoint_to_tx |-> Put(acc.outpoint_to_tx,
                                 ParentOutPoint(deposit.tx.txid, deposit.nburnindex),
                                 deposit.tx),
          outputs |-> Put(acc.outputs, <<"Deposit", deposit.tx.txid, deposit.nburnindex>>,
                          [address |-> deposit.strdest,
                           value |-> BurnValue(deposit.tx, deposit.nburnindex)])]

\* the body of the loop of get_deposits for one reported deposit
IngestOne(acc, deposit) ==
    IF deposit.form = "undecodable" THEN [acc EXCEPT !.state = <<"Err", "decode">>]
    ELSE IF deposit.nburnindex >= Len(deposit.tx.output)
         THEN [acc EXCEPT !.state = <<"panic">>]
    ELSE LET outpoint == ParentOutPoint(deposit.tx.txid, deposit.nburnindex)
             value == BurnValue(deposit.tx, deposit.nburnindex)
         IN  IF Gt(acc.prev_value, value) THEN acc
             ELSE IF deposit.form = "bad address"
                  THEN [acc EXCEPT !.state = <<"Err", "bs58">>]
             ELSE IF deposit.form = "short address"
                  THEN [acc EXCEPT !.state = <<"panic">>]
             ELSE [state |-> acc.state,
                   prev_value |-> value,
                   outpoint_to_tx |-> Put(acc.outpoint_to_tx, outpoint, deposit.tx),
                   outputs |-> Put(acc.outputs, <<"Deposit", outpoint[1], outpoint[2]>>,
                                   [address |-> deposit.strdest,
                                    value |-> CheckedSub([v |-> value, ovf |-> FALSE],
                                                         [v |-> acc.prev_value, ovf |-> FALSE]).v])]

RECURSIVE IngestFrom(_, _, _)
IngestFrom(acc, reported, i) ==
    IF i > Len(reported) \/ acc.state # <<"running">> THEN acc
    ELSE IngestFrom(IngestOne(acc, reported[i]), reported, i + 1)

\* Client::get_deposits on the reply json_deposits of the parent node:
\* <<"Ok", chunk>>, <<"Err", kind>>, <<"panic">> or <<"diverges">>
get_deposits(last_deposit, reply, order) ==
    LET prev_value == IF last_deposit = None THEN Zero64 ELSE last_deposit[1].total
        done == IngestFrom([state |-> <<"running">>, prev_value |-> prev_value,
                            outpoint_to_tx |-> EmptyMap, outputs |-> EmptyMap],
                           Reverse(reply), 1)
        sorted == sort_deposits(done.outpoint_to_tx, order)
    IN  IF done.state # <<"running">> THEN done.state
        ELSE IF sorted[1] # "Ok" THEN sorted
        ELSE <<"Ok", [outputs |-> done.outputs, deposits |-> sorted[2]]>>

-----------------------------------------------------------------------------
(* Mainchain view of a sidechain, lib.rs *)

\* struct WithdrawalOutpoint { block_hash, index }
WithdrawalOutpoint(block_hash, index) == <<block_hash, index>>

\* struct DepositOutpoint, which has no field
DepositOutpoint == <<"DepositOutpoint">>

\* MainState::default(): the fields that connect and disconnect touch
MainDefault ==
    [claimable_deposits |-> {}, refundable_withdrawals |-> {}, withdrawals |-> EmptyMap]

\* MainState::get_withdrawal: Option<Withdrawal>
get_withdrawal(st, outpoint) ==
    IF outpoint \in DOMAIN st.withdrawals THEN Some(st.withdrawals[outpoint]) ELSE None

\* the outpoints (0..n).map(|index| WithdrawalOutpoint { block_hash, index })
WithdrawalOutpoints(block_hash, n) ==
    {WithdrawalOutpoint(block_hash, index) : index \in 0..(n - 1)}

\* HashMap::extend with keys.zip(values): later pairs replace earlier ones
ExtendZip(map, keys, values) ==
    LET n == Min(Len(keys), Len(values))
    IN  [k \in DOMAIN map \cup {keys[i] : i \in 1..n} |->
            IF \E i \in 1..n : keys[i] = k
            THEN values[CHOOSE i \in 1..n : keys[i] = k /\ \A j \in (i + 1)..n : keys[j] # k]
            ELSE map[k]]

\* MainState::connect; order is the order in which the clone of the HashSet
\* withdrawal_outpoints iterates
MainState_connect(st, header, body, order) ==
    LET block_hash == Hash(header)
        withdrawal_outpoints == WithdrawalOutpoints(block_hash, Len(body.withdrawals))
    IN  [st EXCEPT
           !.refundable_withdrawals =
               (@ \cup withdrawal_outpoints) \
                  {body.refund_inputs[i].outpoint : i \in 1..Len(body.refund_inputs)},
           !.withdrawals = ExtendZip(@, order, body.withdrawals),
           !.claimable_deposits =
               @ \ {body.deposit_inputs[i].outpoint : i \in 1..Len(body.deposit_inputs)}]

\* MainState::disconnect
MainState_disconnect(st, header, body) ==
    LET withdrawal_outpoints == WithdrawalOutpoints(Hash(header), Len(body.withdrawals))
    IN  [st EXCEPT
           !.refundable_withdrawals =
               (@ \ withdrawal_outpoints) \cup
                  {body.refund_inputs[i].outpoint : i \in 1..Len(body.refund_inputs)},
           !.withdrawals = RemoveKeys(@, withdrawal_outpoints),
           !.claimable_deposits =
               @ \cup {body.deposit_inputs[i].outpoint : i \in 1..Len(body.deposit_inputs)}]

-----------------------------------------------------------------------------
(* Two way peg state, main_state.rs *)

\* TwoWayPegState::default()
PegDefault ==
    [deposits |-> EmptyMap, deposits_order |-> <<>>, unspent_deposit_outputs |-> {},
     withdrawals |-> EmptyMap, unspent_withdrawal_outputs |-> {}]

\* struct WithdrawalOutpoint { block_hash, index } of main_state.rs
PegWithdrawalOutpoint(block_hash, index) == <<block_hash, index>>

\* HashMap::extend: the entries of more replace those of map
Extend(map, more) ==
    [k \in DOMAIN map \cup DOMAIN more |-> IF k \in DOMAIN more THEN more[k] ELSE map[k]]

\* TwoWayPegState::connect_deposits
connect_deposits(st, chunk) ==
    [st EXCEPT !.deposits = Extend(@, chunk.deposits),
               !.deposits_order = @ \o chunk.deposits_order]

RECURSIVE DisconnectDepositsFrom(_, _, _)
\* the loop of disconnect_deposits over chunk.deposits_order, from entry i on
DisconnectDepositsFrom(st, chunk, i) ==
    IF i > Len(chunk.deposits_order) THEN st
    ELSE DisconnectDepositsFrom(
            [st EXCEPT !.deposits = RemoveKeys(@, {chunk.deposits_order[i]}),
                       !.deposits_order = Pop(@)],
            chunk, i + 1)

\* TwoWayPegState::disconnect_deposits
disconnect_deposits(st, chunk) == DisconnectDepositsFrom(st, chunk, 1)

\* TwoWayPegState::validate
TwoWayPegState_validate(st, chunk) ==
    /\ \A i \in 1..Len(chunk.deposit_inputs) :
          chunk.deposit_inputs[i] \in st.unspent_deposit_outputs
    /\ \A i \in 1..Len(chunk.refund_inputs) :
          chunk.refund_inputs[i] \in st.unspent_withdrawal_outputs

\* TwoWayPegState::connect
TwoWayPegState_connect(st, chunk) ==
    [st EXCEPT
       !.unspent_deposit_outputs = @ \ Range(chunk.deposit_inputs),
       !.unspent_withdrawal_outputs =
           (@ \ Range(chunk.refund_inputs)) \cup DOMAIN chunk.withdrawals,
       !.withdrawals = Extend(@, chunk.withdrawals)]

\* TwoWayPegState::disconnect that does not return the refunded outpoints
TwoWayPegState_disconnect_refunds_lost(st, chunk) ==
    [st EXCEPT
       !.unspent_deposit_outputs = @ \cup Range(chunk.deposit_inputs),
       !.unspent_withdrawal_outputs = @ \ DOMAIN chunk.withdrawals,
       !.withdrawals = RemoveKeys(@, DOMAIN chunk.withdrawals)]

\* TwoWayPegState::disconnect
TwoWayPegState_disconnect(st, chunk) ==
    [st EXCEPT
       !.unspent_deposit_outputs = @ \cup Range(chunk.deposit_inputs),
       !.unspent_withdrawal_outputs =
           (@ \cup Range(chunk.refund_inputs)) \ DOMAIN chunk.withdrawals,
       !.withdrawals = RemoveKeys(@, DOMAIN chunk.withdrawals)]

-----------------------------------------------------------------------------
(* What the callers offer to the chain *)

\* the keys of the three output maps
KnownOutPoints(st) ==
    (DOMAIN st.outputs \cup DOMAIN st.deposit_outputs) \cup DOMAIN st.withdrawal_outputs

\* a parent-chain outpoint that is never deposited
UnknownOutPoint == Deposit(0)

\* the address that may spend the output an outpoint refers to
ReferencedAddress(st, outpoint) ==
    IF outpoint \in DOMAIN st.outputs THEN st.outputs[outpoint].address
    ELSE IF outpoint \in DOMAIN st.withdrawal_outputs
         THEN st.withdrawal_outputs[outpoint].side_address
    ELSE IF outpoint \in DOMAIN st.deposit_outputs
         THEN st.deposit_outputs[outpoint].address
    ELSE Address("k1")

OwnerKey(st, outpoint) ==
    CHOOSE k \in Keys : Address(k) = ReferencedAddress(st, outpoint)

OtherKey(k) == CHOOSE other \in Keys : other # k

SeqsUpTo(S, n) == UNION {[1..m -> S] : m \in 0..n}

\* a signature list for an unsigned transaction:
\*   "owner"    every input signed by the key of the output it refers to
\*   "short"    as "owner", without the signature of the last input
\*   "none"     no signature at all
\*   "extra"    as "owner", and one more signature
\*   "wrongkey" every input signed, validly, by another key
\*   "lastwrong" as "owner", the last input signed, validly, by another key
\*   "badsig"   the owner's public key with a signature over something else
SignaturesBy(mode, st, unsigned) ==
    LET n == Len(unsigned.inputs)
        owner == [i \in 1..n |-> SignatureNew(OwnerKey(st, unsigned.inputs[i]), unsigned)]
    IN  CASE mode = "owner" -> owner
          [] mode = "short" -> SubSeq(owner, 1, n - 1)
          [] mode = "none" -> <<>>
          [] mode = "extra" -> Append(owner, SignatureNew("k1", unsigned))
          [] mode = "wrongkey" ->
                [i \in 1..n |-> SignatureNew(OtherKey(OwnerKey(st, unsigned.inputs[i])), unsigned)]
          [] mode = "lastwrong" ->
                [i \in 1..n |->
                    IF i < n THEN owner[i]
                    ELSE SignatureNew(OtherKey(OwnerKey(st, unsigned.inputs[i])), unsigned)]
          [] mode = "badsig" ->
                [i \in 1..n |-> [public_key |-> OwnerKey(st, unsigned.inputs[i]),
                                 signature |-> Sign(OwnerKey(st, unsigned.inputs[i]), <<"other">>)]]

\* the transactions over the given inputs, signature modes and output lists
TransactionsOver(st, pool, modes, outs, wouts) ==
    { [inputs |-> ins,
       signatures |-> SignaturesBy(m, st, [inputs |-> ins, signatures |-> <<>>,
                                           outputs |-> o, withdrawal_outputs |-> w]),
       outputs |-> o,
       withdrawal_outputs |-> w] :
      ins \in SeqsUpTo(pool, MaxInputs), m \in modes, o \in outs, w \in wouts }

One == U64(0, 1)

\* 2^63
Huge == U64(1, 0)

OutputLists(addresses, values) ==
    {<<>>} \cup {<<[address |-> a, value |-> v]>> : a \in addresses, v \in values}

WithdrawalLists(values) ==
    {<<>>} \cup {<<[value |-> v, fee |-> Zero64, side_address |-> Address("k1"),
                    main_address |-> "main"]>> : v \in values}

\* the transactions a block producer may put into a body
ProducedTxs(st) ==
    TransactionsOver(st, KnownOutPoints(st), {"owner", "short"},
                     OutputLists({Address("k1")}, {One, Huge}),
                     WithdrawalLists({Huge}))

\* the coinbase of every produced body
ProducedCoinbase == <<[address |-> Address("k2"), value |-> Zero64]>>

\* a transaction without signatures that spends the first output of tx into
\* nothing
SpendOf(tx) ==
    [inputs |-> <<Regular(Txid(tx), 0)>>, signatures |-> <<>>,
     outputs |-> <<>>, withdrawal_outputs |-> <<>>]

\* the bodies of at most n transactions, each of which validates on its own:
\* transactions over the known outpoints, and a transaction next to one that
\* spends its first output
ProducedBodies(st, n) ==
    LET ok == {tx \in ProducedTxs(st) : validate_transaction(st, tx) = "ok"}
        spent == {tx \in ok : tx.outputs # <<>> /\ validate_transaction(st, SpendOf(tx)) = "ok"}
    IN  {[coinbase |-> ProducedCoinbase, transactions |-> txs] :
           txs \in SeqsUpTo(ok, n) \cup
                   (IF n < 2 THEN {}
                    ELSE {<<tx, SpendOf(tx)>> : tx \in spent} \cup
                         {<<SpendOf(tx), tx>> : tx \in spent})}

\* the fee keys a client may submit a transaction under: 0, 1, 2^63, 2^63 + 1
Fees == {Zero64, One, Huge, U64(1, 1)}

\* the transactions a client may submit: the first parent-chain deposit spent
\* by its owner, into nothing or into an output of its whole value
PoolTxs(st) ==
    {tx \in TransactionsOver(st, {Deposit(1)}, {"owner"},
                             OutputLists({Address("k1")}, {One}), {<<>>}) :
        Len(tx.inputs) = 1}

\* the address a producer collects the fees at
ProducerAddress == Address("k2")

\* the burn output values of the parent transactions: 10, 25, 40
BurnValues == {U64(0, 10), U64(0, 25), U64(0, 40)}

\* the parent chains of MaxReported deposit transactions: transaction n spends
\* output 0 of an earlier transaction m, m = 0 standing for a transaction that
\* is not reported, and no reported output is spent twice
ParentChains ==
    {c \in [1..MaxReported -> [spends : 0..(MaxReported - 1), value : BurnValues]] :
        /\ \A n \in 1..MaxReported : c[n].spends < n
        /\ \A n, k \in 1..MaxReported :
              (n # k /\ c[n].spends = c[k].spends) => c[n].spends = 0}

\* how a record of the reply decodes: "undecodable" fails hex or transaction
\* decoding, "bad address" fails base58check decoding of strdest,
\* "short address" decodes strdest to other than 32 bytes, "bad index" decodes
\* but nburnindex names no output of the transaction
Forms == {"ok", "undecodable", "bad address", "short address", "bad index"}

\* the sequences over S without repetition, of at most n elements
DistinctSeqs(S, n) ==
    {q \in SeqsUpTo(S, n) : \A i, j \in 1..Len(q) : i # j => q[i] # q[j]}

\* the replies of the parent node: records of different deposit transactions
\* of one parent chain in any order, at most one of them malformed
Replies ==
    {[i \in 1..Len(ids) |->
        [tx |-> ParentTx(ids[i], ParentOutPoint(c[ids[i]].spends, 0), c[ids[i]].value),
         nburnindex |-> IF i = bad[1] /\ bad[2] = "bad index" THEN 1 ELSE 0,
         strdest |-> Address("k1"),
         form |-> IF i = bad[1] THEN bad[2] ELSE "ok"]] :
       c \in ParentChains,
       ids \in DistinctSeqs(1..MaxReported, MaxReported),
       bad \in (0..MaxReported) \X (Forms \ {"ok"})}

\* the last deposit of the previous chunk: none, or output 0 of transaction 0
\* with a total of 10 or 25
LastDeposits ==
    {None} \cup {Some([outpoint |-> ParentOutPoint(0, 0), total |-> v]) :
                    v \in {U64(0, 10), U64(0, 25)}}

\* the orders in which a HashMap over the reported outpoints may iterate
IterationOrders ==
    DistinctSeqs({ParentOutPoint(n, 0) : n \in 1..MaxReported}, MaxReported)
       \ SeqsUpTo({ParentOutPoint(n, 0) : n \in 1..MaxReported}, MaxReported - 1)

\* the maps sort_deposits may be called on: over any of the reported
\* outpoints, each the outpoint of its own transaction, which spends output 0
\* of one or two transactions, itself included, or of transaction 0, which no
\* map holds
DepositMaps ==
    UNION {{map \in [{ParentOutPoint(n, 0) : n \in ids} ->
                        {[txid |-> n, input |-> ins, output |-> <<U64(0, 10)>>] :
                           n \in ids,
                           ins \in SeqsUpTo({ParentOutPoint(m, 0) : m \in 0..MaxReported},
                                            MaxInputs) \ {<<>>}}] :
              \A o \in DOMAIN map : map[o].txid = o[1]} :
             ids \in SUBSET (1..MaxReported)}

\* the orders in which a HashSet of the elements of S may iterate
SetOrders(S) == DistinctSeqs(S, Cardinality(S)) \ SeqsUpTo(S, Cardinality(S) - 1)

\* the headers of the sidechain blocks the mainchain side is told about
MainHeaders ==
    {[prev_side_block_hash |-> ZeroHash, prev_main_block_hash |-> Hash(m), header |-> d] :
        m \in {"main"}, d \in 1..MaxMainBlocks}

\* the withdrawals of those blocks: 1 or 2 coins to the main address, fee 0
MainWithdrawals ==
    {[amount |-> v, fee |-> Zero64, mainchain_address |-> "main",
      sidechain_address |-> Address("k1")] : v \in {One, U64(0, 2)}}

\* the bodies of those blocks: at most MaxWithdrawals withdrawals, at most one
\* refund of a withdrawal of one of the blocks, at most one claimed deposit
MainBodies ==
    {[withdrawals |-> w, refund_inputs |-> r, deposit_inputs |-> d] :
        w \in SeqsUpTo(MainWithdrawals, MaxWithdrawals),
        r \in SeqsUpTo({[outpoint |-> WithdrawalOutpoint(Hash(h), i), signature |-> "k1"] :
                           h \in MainHeaders, i \in 0..(MaxWithdrawals - 1)}, 1),
        d \in SeqsUpTo({[outpoint |-> DepositOutpoint, signature |-> "k1"]}, 1)}

\* the mainchain outpoints and the withdrawal outpoints of the peg
PegDepositOutPoints == {ParentOutPoint(n, 0) : n \in 1..MaxPegOutPoints}

PegWithdrawalOutpoints ==
    {PegWithdrawalOutpoint(Hash("block"), index) : index \in 0..(MaxPegOutPoints - 1)}

\* struct Withdrawal of main_state.rs: 1 or 2 coins, fee 0
PegWithdrawals ==
    {[amount |-> v, fee |-> Zero64, main_address |-> "main"] : v \in {One, U64(0, 2)}}

\* the maps from some of the keys to the values
MapsOver(keys, values) == UNION {[ks -> values] : ks \in SUBSET keys}

\* the TwoWayPegChunks a caller may hand over
PegChunks ==
    {[withdrawals |-> w, refund_inputs |-> r, deposit_inputs |-> d] :
        w \in MapsOver(PegWithdrawalOutpoints, PegWithdrawals),
        r \in SeqsUpTo(PegWithdrawalOutpoints, MaxPegInputs),
        d \in SeqsUpTo(PegDepositOutPoints, MaxPegInputs)}

\* the DepositsChunk of the next mainchain deposit
PegDepositsChunks(st) ==
    LET o == ParentOutPoint(Len(st.deposits_order) + 1, 0)
    IN  {[deposits |-> (o :> [address |-> "k1", amount |-> One]), deposits_order |-> <<o>>]}

\* the states a TwoWayPegState may be loaded as: any withdrawals with any
\* unspent sets, no deposit connected yet
PegStates ==
    {[deposits |-> EmptyMap, deposits_order |-> <<>>, unspent_deposit_outputs |-> ud,
      withdrawals |-> w, unspent_withdrawal_outputs |-> uw] :
        ud \in SUBSET PegDepositOutPoints,
        w \in MapsOver(PegWithdrawalOutpoints, PegWithdrawals),
        uw \in SUBSET PegWithdrawalOutpoints}

\* the chunks the ingestor may deliver: the next parent-chain deposit
DepositsChunks(st) ==
    LET n == Len(st.deposits) + 1
    IN  {[outputs |-> (Deposit(n) :> [address |-> Address(k), value |-> One]),
          deposits |-> <<[outpoint |-> n, total |-> One]>>] : k \in {"k1"}}

-----------------------------------------------------------------------------
(* The state machine *)

Store(st) ==
    /\ block_order' = st.block_order
    /\ headers' = st.headers
    /\ bodies' = st.bodies
    /\ transactions' = st.transactions
    /\ outputs' = st.outputs
    /\ deposit_outputs' = st.deposit_outputs
    /\ deposits' = st.deposits
    /\ withdrawal_outputs' = st.withdrawal_outputs
    /\ unspent_outpoints' = st.unspent_outpoints
    /\ UNCHANGED <<library, overflow_checks, mempool, candidate, json_deposits, returned>>

\* BlockChain::new and an empty MemPool, in either build
Fresh ==
    /\ block_order = <<>>
    /\ headers = EmptyMap
    /\ bodies = EmptyMap
    /\ transactions = EmptyMap
    /\ outputs = EmptyMap
    /\ deposit_outputs = EmptyMap
    /\ deposits = <<>>
    /\ withdrawal_outputs = EmptyMap
    /\ unspent_outpoints = {}
    /\ overflow_checks \in BOOLEAN
    /\ mempool = EmptyMap
    /\ candidate = NoBody

\* no map to sort, MainState::default() and TwoWayPegState::default()
Unused ==
    /\ outpoint_to_tx = EmptyMap
    /\ sort_returned = NotCalled
    /\ main_state = MainDefault
    /\ peg_state = PegDefault

Init ==
    /\ Fresh
    /\ json_deposits = <<>>
    /\ returned = NotCalled
    /\ Unused

\* every parent-chain deposit is added once
AddDeposits ==
    /\ Len(deposits) < MaxDeposits
    /\ \E chunk \in DepositsChunks(chain) : Store(add_deposits(chain, chunk))

\* connect_block is called on a block for which validate_block returned true
ConnectBlock ==
    \E body \in ProducedBodies(chain, Min(MaxBodyTxs, MaxOrder - Len(block_order))) :
       LET header == HeaderNew(get_best_block_hash(chain), body)
       IN  /\ validate_block(chain, header, body)
           /\ Store(connect_block(chain, header, body))

\* the current tip is a block whose header and body the chain stores
HasTip ==
    /\ block_order # <<>>
    /\ Last(block_order) \in DOMAIN headers
    /\ Last(block_order) \in DOMAIN bodies

\* disconnect_block is called on the current tip only
DisconnectBlock ==
    /\ HasTip
    /\ Store(disconnect_block(chain, headers[Last(block_order)], bodies[Last(block_order)]))

Next == AddDeposits \/ ConnectBlock \/ DisconnectBlock

Spec == Init /\ [][Next]_vars

\* a client submits a transaction under a fee of its choice
MemPoolInsert ==
    /\ \E fee \in Fees, transaction \in PoolTxs(chain) :
          mempool' = insert(mempool, fee, transaction).transactions
    /\ UNCHANGED <<library, block_order, headers, bodies, transactions,
                   outputs,
                   deposit_outputs, deposits, withdrawal_outputs,
                   unspent_outpoints, overflow_checks, candidate,
                   json_deposits, returned>>

\* a producer that takes the selected transactions out of the pool
CreateBodyDraining ==
    /\ \E num \in 0..MaxSelected :
          /\ candidate' = create_body(mempool, ProducerAddress, num)
          /\ mempool' = RemoveKeys(mempool, Range(Take(Descending(DOMAIN mempool), num)))
    /\ UNCHANGED <<library, block_order, headers, bodies, transactions,
                   outputs,
                   deposit_outputs, deposits, withdrawal_outputs,
                   unspent_outpoints, overflow_checks, json_deposits, returned>>

\* a producer asks for a body of at most num transactions
CreateBody ==
    /\ \E num \in 0..MaxSelected :
          candidate' = create_body(mempool, ProducerAddress, num)
    /\ UNCHANGED <<library, block_order, headers, bodies, transactions,
                   outputs,
                   deposit_outputs, deposits, withdrawal_outputs,
                   unspent_outpoints, overflow_checks, mempool,
                   json_deposits, returned>>

\* the producer pairs the body with a header on the current tip and connects
\* the block once validate_block has returned true
ConnectCandidate ==
    /\ candidate[1] = "Ok"
    /\ Len(block_order) + Len(candidate[2].transactions) <= MaxOrder
    /\ LET body == candidate[2]
           header == HeaderNew(get_best_block_hash(chain), body)
       IN  /\ validate_block(chain, header, body)
           /\ Store(connect_block(chain, header, body))

MemPoolNext == AddDeposits \/ MemPoolInsert \/ CreateBody \/ ConnectCandidate

\* the mempool next to a chain that receives deposits
MemPoolSpec == Init /\ [][MemPoolNext]_vars

\* the parent node has replied to listsidechaindeposits
ClientInit ==
    /\ Fresh
    /\ json_deposits \in Replies
    /\ returned = NotCalled
    /\ Unused

\* the ingestor is called on the reply, after any last deposit and with any
\* iteration order of its map
GetDeposits ==
    /\ \E last_deposit \in LastDeposits, order \in IterationOrders :
          returned' = get_deposits(last_deposit, json_deposits, order)
    /\ UNCHANGED <<library, block_order, headers, bodies, transactions,
                   outputs,
                   deposit_outputs, deposits, withdrawal_outputs,
                   unspent_outpoints, overflow_checks, mempool, candidate,
                   json_deposits>>

ClientNext == GetDeposits

\* the deposit ingestor on one reply of the parent node
ClientSpec == ClientInit /\ [][ClientNext]_vars

\* sort_deposits is about to be called on a map
SortInit ==
    /\ Fresh
    /\ json_deposits = <<>>
    /\ returned = NotCalled
    /\ outpoint_to_tx \in DepositMaps
    /\ sort_returned = NotCalled
    /\ main_state = MainDefault
    /\ peg_state = PegDefault

\* sort_deposits runs on the map, under any iteration order of it
SortDeposits ==
    /\ \E order \in IterationOrders : sort_returned' = sort_deposits(outpoint_to_tx, order)
    /\ UNCHANGED <<block_order, headers, bodies, transactions, outputs,
                   deposit_outputs, deposits, withdrawal_outputs,
                   unspent_outpoints, overflow_checks, mempool, candidate,
                   json_deposits, returned, outpoint_to_tx, main_state, peg_state>>

SortNext == SortDeposits

\* sort_deposits on one map
SortSpec == SortInit /\ [][SortNext]_vars

\* MainState::connect on a block, the HashSet iterating in any order
MainConnect ==
    /\ \E header \in MainHeaders, body \in MainBodies :
          \E order \in SetOrders(WithdrawalOutpoints(Hash(header), Len(body.withdrawals))) :
             main_state' = MainState_connect(main_state, header, body, order)
    /\ UNCHANGED <<block_order, headers, bodies, transactions, outputs,
                   deposit_outputs, deposits, withdrawal_outputs,
                   unspent_outpoints, overflow_checks, mempool, candidate,
                   json_deposits, returned, outpoint_to_tx, sort_returned, peg_state>>

\* MainState::disconnect on a block whose withdrawals the state holds
MainDisconnect ==
    /\ \E header \in MainHeaders, body \in MainBodies :
          /\ body.withdrawals # <<>>
          /\ WithdrawalOutpoints(Hash(header), Len(body.withdrawals)) \subseteq
                DOMAIN main_state.withdrawals
          /\ main_state' = MainState_disconnect(main_state, header, body)
    /\ UNCHANGED <<block_order, headers, bodies, transactions, outputs,
                   deposit_outputs, deposits, withdrawal_outputs,
                   unspent_outpoints, overflow_checks, mempool, candidate,
                   json_deposits, returned, outpoint_to_tx, sort_returned, peg_state>>

MainNext == MainConnect \/ MainDisconnect

\* a TwoWayPegState as loaded
PegInit ==
    /\ Fresh
    /\ json_deposits = <<>>
    /\ returned = NotCalled
    /\ outpoint_to_tx = EmptyMap
    /\ sort_returned = NotCalled
    /\ main_state = MainDefault
    /\ peg_state \in PegStates

\* the peg state changes to st, nothing else changes
PegStore(st) ==
    /\ peg_state' = st
    /\ UNCHANGED <<block_order, headers, bodies, transactions, outputs,
                   deposit_outputs, deposits, withdrawal_outputs,
                   unspent_outpoints, overflow_checks, mempool, candidate,
                   json_deposits, returned, outpoint_to_tx, sort_returned, main_state>>

PegConnectDeposits ==
    /\ Len(peg_state.deposits_order) < MaxPegOutPoints
    /\ \E chunk \in PegDepositsChunks(peg_state) : PegStore(connect_deposits(peg_state, chunk))

\* disconnect_deposits on the chunk connected last
PegDisconnectDeposits ==
    /\ peg_state.deposits_order # <<>>
    /\ LET o == Last(peg_state.deposits_order)
       IN  PegStore(disconnect_deposits(peg_state,
                       [deposits |-> (o :> peg_state.deposits[o]), deposits_order |-> <<o>>]))

\* connect on a chunk for which validate returned true
PegConnect ==
    \E chunk \in PegChunks :
       /\ TwoWayPegState_validate(peg_state, chunk)
       /\ PegStore(TwoWayPegState_connect(peg_state, chunk))

\* disconnect on a chunk whose withdrawals the state holds and whose inputs
\* are spent
PegDisconnect ==
    \E chunk \in PegChunks :
       /\ \A o \in DOMAIN chunk.withdrawals :
             o \in DOMAIN peg_state.withdrawals /\ peg_state.withdrawals[o] = chunk.withdrawals[o]
       /\ Range(chunk.deposit_inputs) \cap peg_state.unspent_deposit_outputs = {}
       /\ Range(chunk.refund_inputs) \cap peg_state.unspent_withdrawal_outputs = {}
       /\ PegStore(TwoWayPegState_disconnect(peg_state, chunk))

PegNext == PegConnectDeposits \/ PegDisconnectDeposits \/ PegConnect \/ PegDisconnect

\* the two way peg state
PegSpec == PegInit /\ [][PegNext]_vars

\* the mainchain side of the sidechain, from MainState::default()
MainSpec == Init /\ [][MainNext]_vars

-----------------------------------------------------------------------------
(* Transactions and blocks the properties are asked about *)

AllModes == {"owner", "short", "none", "extra", "wrongkey", "lastwrong", "badsig"}

\* the transactions anyone may hand to validate_transaction in state st
OfferedTxs(st) ==
    TransactionsOver(st, KnownOutPoints(st) \cup {UnknownOutPoint}, AllModes,
                     OutputLists({Address("k1")}, {One, Huge}),
                     WithdrawalLists({Huge}))

\* the block a producer builds from a transaction list on the current tip
BlockOf(st, txs) ==
    LET body == [coinbase |-> ProducedCoinbase, transactions |-> txs]
    IN  [header |-> HeaderNew(get_best_block_hash(st), body), body |-> body]

\* the value of the output an outpoint refers to, 0 when there is none
ReferencedValue(st, outpoint) ==
    IF outpoint \in DOMAIN st.outputs THEN st.outputs[outpoint].value
    ELSE IF outpoint \in DOMAIN st.withdrawal_outputs
         THEN st.withdrawal_outputs[outpoint].value
    ELSE IF outpoint \in DOMAIN st.deposit_outputs
         THEN st.deposit_outputs[outpoint].value
    ELSE Zero64

\* value in and value out of a transaction over the unbounded integers
MathValueIn(st, tx) ==
    MathSum([i \in 1..Len(tx.inputs) |-> ReferencedValue(st, tx.inputs[i])])

MathValueOut(tx) ==
    MathAdd(MathSum(Values(tx.outputs)), MathSum(Values(tx.withdrawal_outputs)))

\* signatures[i] exists, is valid over the stripped txid, and its address is
\* the address of the output inputs[i] refers to
Authorised(st, tx, i) ==
    /\ i <= Len(tx.signatures)
    /\ is_valid(tx.signatures[i], Txid(without_signatures(tx)))
    /\ tx.inputs[i] \in KnownOutPoints(st)
    /\ get_address(tx.signatures[i]) = ReferencedAddress(st, tx.inputs[i])

\* every place <<block, transaction, input>> of an input in a stored body
AcceptedInputPlaces ==
    UNION {UNION {{<<b, t, i>> : i \in 1..Len(bodies[b].transactions[t].inputs)} :
                  t \in 1..Len(bodies[b].transactions)} :
           b \in DOMAIN bodies}

InputAt(place) == bodies[place[1]].transactions[place[2]].inputs[place[3]]

\* the outpoints that are an input of a transaction in the transaction index
SpentByAccepted == UNION {Range(transactions[t].inputs) : t \in DOMAIN transactions}

-----------------------------------------------------------------------------
(* Properties *)

\* C1: unspent_outpoints is the set of keys of the three output maps minus the
\* outpoints that are an input of a transaction in the transaction index.
C1_UnspentIsKeysMinusSpent ==
    unspent_outpoints = KnownOutPoints(chain) \ SpentByAccepted

\* C2: every input of a transaction that validate_transaction accepts is
\* covered by a signature that is valid over the signatures-stripped txid and
\* whose address is the address of the output the input refers to.
C2_SignatureAuthenticity ==
    \A tx \in OfferedTxs(chain) :
       validate_transaction(chain, tx) = "ok" =>
          \A i \in 1..Len(tx.inputs) : Authorised(chain, tx, i)

\* C3: no outpoint is consumed more than once: it is the input of at most one
\* place of the accepted bodies (not of two transactions, not twice in one
\* transaction, not again once it is spent).
C3_NoDoubleSpend ==
    \A p, q \in AcceptedInputPlaces : p # q => InputAt(p) # InputAt(q)

\* C4: validate_block returns false for every body in which two different
\* transactions, each valid on its own, have an input in common, the header
\* being the right one.
C4_BodyDoubleSpendRejected ==
    LET ok == {tx \in OfferedTxs(chain) : validate_transaction(chain, tx) = "ok"}
    IN  \A t1, t2 \in ok :
           (t1 # t2 /\ Range(t1.inputs) \cap Range(t2.inputs) # {}) =>
              LET b == BlockOf(chain, <<t1, t2>>)
              IN  validate_block_result(chain, b.header, b.body) = "false"

\* C5: connect_block followed by disconnect_block of the same validated block
\* restores every field of the chain state, for bodies of zero, one or more
\* transactions.
C5_ConnectDisconnectRoundTrip ==
    \A body \in ProducedBodies(chain, MaxBodyTxs) :
       LET header == HeaderNew(get_best_block_hash(chain), body)
       IN  validate_block(chain, header, body) =>
              disconnect_block(connect_block(chain, header, body), header, body) = chain

\* C6: disconnect_block of the tip followed by connect_block of the same block
\* restores every field of the chain state.
C6_DisconnectReconnectRoundTrip ==
    HasTip =>
       LET header == headers[Last(block_order)]
           body == bodies[Last(block_order)]
       IN  connect_block(disconnect_block(chain, header, body), header, body) = chain

\* C7: validate_transaction rejects with "value out > value in" every
\* transaction whose outputs and withdrawal outputs sum to more than the outputs
\* its inputs refer to, so an accepted transaction has value in >= value out.
C7_ValueConservation ==
    \A tx \in OfferedTxs(chain) :
       /\ Gt(MathValueOut(tx), MathValueIn(chain, tx)) =>
             validate_transaction(chain, tx) = ErrValue
       /\ validate_transaction(chain, tx) = "ok" =>
             ~Gt(MathValueOut(tx), MathValueIn(chain, tx))

\* C8: validate_transaction returns an error for every transaction whose
\* number of inputs differs from its number of signatures.
C8_ArityRejected ==
    \A tx \in OfferedTxs(chain) :
       Len(tx.inputs) # Len(tx.signatures) => validate_transaction(chain, tx) # "ok"

\* C9: consecutive entries of block_order are linked: the stored header of
\* block_order[i+1] has prev_block_hash = block_order[i] = hash(header of
\* block_order[i]), and the header of the first entry has the zero hash.
C9_ChainLinkage ==
    /\ \A i \in 1..Len(block_order) :
          /\ block_order[i] \in DOMAIN headers
          /\ block_order[i] = HeaderHash(headers[block_order[i]])
          /\ headers[block_order[i]].prev_block_hash =
                IF i = 1 THEN ZeroHash ELSE block_order[i - 1]

\* C10: the elements of block_order are exactly the keys of headers and of
\* bodies.
C10_BlockStoreConsistency ==
    /\ Range(block_order) = DOMAIN headers
    /\ Range(block_order) = DOMAIN bodies

\* the hash of a header that is never connected
ForkHash == HeaderHash([prev_block_hash |-> ZeroHash, merkle_root |-> ZeroHash])

\* a transaction without inputs and outputs
NoTransaction ==
    [inputs |-> <<>>, signatures |-> <<>>, outputs |-> <<>>, withdrawal_outputs |-> <<>>]

\* the merkle root of a body with one more transaction
OtherRoot(body) ==
    compute_merkle_root([body EXCEPT !.transactions = Append(@, NoTransaction)])

\* transactions of at most one input: over an unspent outpoint and signed by
\* its owner, without outputs or with an output and a withdrawal output of 2^63
\* each; over an unspent outpoint and signed by another key; over an unknown
\* outpoint
ProbedTxs(st) ==
    {tx \in (TransactionsOver(st, st.unspent_outpoints, {"owner"},
                              OutputLists({Address("k1")}, {Huge}),
                              WithdrawalLists({Huge}))
             \cup TransactionsOver(st, st.unspent_outpoints \cup {UnknownOutPoint},
                                   {"wrongkey"}, {<<>>}, {<<>>})) :
        /\ Len(tx.inputs) <= 1
        /\ (tx.outputs = <<>>) = (tx.withdrawal_outputs = <<>>)}

\* the blocks anyone may hand to validate_block in state st: a body of probed
\* transactions under a header with the right or a wrong previous hash and the
\* right or a wrong merkle root
OfferedHeaders(st, body) ==
    {[prev_block_hash |-> p, merkle_root |-> m] :
       p \in {get_best_block_hash(st), ForkHash},
       m \in {compute_merkle_root(body), OtherRoot(body)}}

OfferedBlocks(st) ==
    UNION {{[header |-> h, body |-> [coinbase |-> ProducedCoinbase, transactions |-> txs]] :
              h \in OfferedHeaders(st, [coinbase |-> ProducedCoinbase, transactions |-> txs])} :
           txs \in SeqsUpTo(ProbedTxs(st), MaxBodyTxs)}

\* the subsets of S of at most two elements
UpToTwoOf(S) == {{}} \cup {{x, y} : x, y \in S}

\* the chunks anyone may hand to add_deposits in state st: outputs of 2^63 for
\* k2 under at most two outpoints, each a parent-chain deposit (reported
\* before or not), or the outpoint of an output the chain records, or another
\* Regular outpoint; and a list of at most two deposits
OfferedChunks(st) ==
    {[outputs |-> [o \in keys |-> [address |-> Address("k2"), value |-> Huge]],
      deposits |-> list] :
       keys \in UpToTwoOf({Deposit(1), Deposit(MaxDeposits + 1),
                           Regular(Txid(NoTransaction), 0)} \cup DOMAIN st.outputs),
       list \in SeqsUpTo({[outpoint |-> 1, total |-> One],
                          [outpoint |-> MaxDeposits + 1, total |-> Huge]}, 2)}

\* the outpoints of one variant of OutPoint
OfKind(kind, outpoints) == {o \in outpoints : o[1] = kind}

\* every map holds outpoints of its own variant only, so no two share a key
KeysSeparated(st) ==
    /\ DOMAIN st.outputs = OfKind("Regular", DOMAIN st.outputs)
    /\ DOMAIN st.withdrawal_outputs = OfKind("Withdrawal", DOMAIN st.withdrawal_outputs)
    /\ DOMAIN st.deposit_outputs = OfKind("Deposit", DOMAIN st.deposit_outputs)
    /\ DOMAIN st.outputs \cap DOMAIN st.deposit_outputs = {}
    /\ DOMAIN st.outputs \cap DOMAIN st.withdrawal_outputs = {}
    /\ DOMAIN st.deposit_outputs \cap DOMAIN st.withdrawal_outputs = {}

\* the place of a fee among the fees of the pool, the greatest first
Rank(pool, fee) == 1 + Cardinality({g \in DOMAIN pool : Gt(g, fee)})

\* the num greatest fees of the pool, the greatest first
HighestFees(pool, num) ==
    LET top == {f \in DOMAIN pool : Rank(pool, f) <= num}
    IN  [i \in 1..Cardinality(top) |-> CHOOSE f \in top : Rank(pool, f) = i]

\* the reported deposits, the oldest first
OldestFirst == Reverse(json_deposits)

\* the burn value of the i-th oldest reported deposit
BurnOf(i) == BurnValue(OldestFirst[i].tx, OldestFirst[i].nburnindex)

\* the sidechain outpoint of the i-th oldest reported deposit
DepositOf(i) == <<"Deposit", OldestFirst[i].tx.txid, OldestFirst[i].nburnindex>>

\* the total of the last deposit, 0 when there is none
InitialPrev(last_deposit) == IF last_deposit = None THEN Zero64 ELSE last_deposit[1].total

RECURSIVE PrevAfter(_, _)
\* prev_value once the i oldest reported deposits are processed: the burn
\* value of the last of them that was not below prev_value
PrevAfter(initial, i) ==
    IF i = 0 THEN initial
    ELSE IF Gt(PrevAfter(initial, i - 1), BurnOf(i)) THEN PrevAfter(initial, i - 1)
    ELSE BurnOf(i)

\* the value credited for the i-th oldest reported deposit, 0 when none is
Credited(chunk, i) ==
    IF DepositOf(i) \in DOMAIN chunk.outputs THEN chunk.outputs[DepositOf(i)].value
    ELSE Zero64

\* the parent outpoints of the reported deposits whose nburnindex names an
\* output of their transaction
ReportedOutPoints ==
    {ParentOutPoint(json_deposits[i].tx.txid, json_deposits[i].nburnindex) :
       i \in {j \in 1..Len(json_deposits) :
                 json_deposits[j].nburnindex < Len(json_deposits[j].tx.output)}}

\* the map from outpoint to transaction of the reported deposits
ReportedTxs ==
    [o \in ReportedOutPoints |->
        (CHOOSE d \in Range(json_deposits) :
            ParentOutPoint(d.tx.txid, d.nburnindex) = o).tx]

\* q lists every reported outpoint once, the first spends no reported
\* outpoint and every other spends the one before it
IsSpendingChain(q) ==
    /\ Range(q) = ReportedOutPoints
    /\ Len(q) = Cardinality(ReportedOutPoints)
    /\ Len(q) > 0 => Range(ReportedTxs[q[1]].input) \cap ReportedOutPoints = {}
    /\ \A i \in 2..Len(q) :
          Range(ReportedTxs[q[i]].input) \cap ReportedOutPoints = {q[i - 1]}

\* C11: connect_block of a validated block stores the header and the body
\* under hash(header) and appends hash(header) to block_order exactly once,
\* for bodies of zero, one or more transactions.
C11_AppendsBlockHashOnce ==
    \A body \in ProducedBodies(chain, MaxBodyTxs) :
       LET header == HeaderNew(get_best_block_hash(chain), body)
           block_hash == HeaderHash(header)
           after == connect_block(chain, header, body)
       IN  validate_block(chain, header, body) =>
              /\ after.block_order = Append(block_order, block_hash)
              /\ block_hash \in DOMAIN after.headers
              /\ block_hash \in DOMAIN after.bodies
              /\ after.headers[block_hash] = header
              /\ after.bodies[block_hash] = body

\* C12: after connect_block of a validated block every coinbase output of the
\* body is recorded under Coinbase(hash(header), vout) and that outpoint is
\* unspent; disconnect_block of the block removes it again.
C12_CoinbaseOutputsRecorded ==
    \A body \in ProducedBodies(chain, MaxBodyTxs) :
       LET header == HeaderNew(get_best_block_hash(chain), body)
           after == connect_block(chain, header, body)
           undone == disconnect_block(after, header, body)
       IN  validate_block(chain, header, body) =>
              \A vout \in 0..(Len(body.coinbase) - 1) :
                 LET outpoint == Coinbase(HeaderHash(header), vout)
                 IN  /\ outpoint \in KnownOutPoints(after)
                     /\ outpoint \in after.unspent_outpoints
                     /\ outpoint \notin KnownOutPoints(undone)
                     /\ outpoint \notin undone.unspent_outpoints

C14_OutputMapsDisjoint ==
    /\ KeysSeparated(chain)
    /\ \A chunk \in OfferedChunks(chain) : KeysSeparated(add_deposits(chain, chunk))

\* C15: add_deposits(chunk) adds every key of chunk.outputs to
\* unspent_outpoints and every entry of chunk.outputs to deposit_outputs,
\* appends chunk.deposits to deposits in order, leaves the entries of
\* deposit_outputs and unspent_outpoints that the chunk does not name as they
\* are, and changes no other field.
C15_AddDepositsFrame ==
    \A chunk \in OfferedChunks(chain) :
       LET after == add_deposits(chain, chunk)
           named == DOMAIN chunk.outputs
       IN  /\ after.unspent_outpoints = unspent_outpoints \cup named
           /\ DOMAIN after.deposit_outputs = DOMAIN deposit_outputs \cup named
           /\ \A o \in named : after.deposit_outputs[o] = chunk.outputs[o]
           /\ \A o \in DOMAIN deposit_outputs \ named :
                 after.deposit_outputs[o] = deposit_outputs[o]
           /\ Len(after.deposits) = Len(deposits) + Len(chunk.deposits)
           /\ SubSeq(after.deposits, 1, Len(deposits)) = deposits
           /\ \A i \in 1..Len(chunk.deposits) :
                 after.deposits[Len(deposits) + i] = chunk.deposits[i]
           /\ after.block_order = block_order
           /\ after.headers = headers
           /\ after.bodies = bodies
           /\ after.transactions = transactions
           /\ after.outputs = outputs
           /\ after.withdrawal_outputs = withdrawal_outputs

\* a chain with a block, a reported deposit and a spent outpoint, offered a
\* chunk of two deposits that names a new outpoint and leaves an entry of
\* deposit_outputs unnamed
C15_Witness ==
    /\ block_order # <<>>
    /\ deposits # <<>>
    /\ DOMAIN deposit_outputs \ unspent_outpoints # {}
    /\ \E chunk \in OfferedChunks(chain) :
          /\ Len(chunk.deposits) = 2
          /\ DOMAIN chunk.outputs \ DOMAIN deposit_outputs # {}
          /\ DOMAIN deposit_outputs \ DOMAIN chunk.outputs # {}
          /\ add_deposits(chain, chunk).deposit_outputs # deposit_outputs

\* C16: insert(fee, tx) stores tx under fee, replacing what was stored under
\* that fee and leaving every other entry as it is, and returns true whether
\* the fee was vacant or taken.
C16_InsertAdmits ==
    \A fee \in Fees, tx \in PoolTxs(chain) :
       LET r == insert(mempool, fee, tx)
       IN  /\ DOMAIN r.transactions = DOMAIN mempool \cup {fee}
           /\ r.transactions[fee] = tx
           /\ \A other \in DOMAIN mempool \ {fee} : r.transactions[other] = mempool[other]
           /\ r.returned = TRUE

\* C17: create_body(coinbase_address, num) returns a body whose transactions
\* are the min(num, pool size) transactions with the greatest fees, the
\* greatest fee first, and whose coinbase is the single output
\* {coinbase_address, sum of the fees of these transactions}, of value 0 when
\* there is none.
C17_CreateBodySelectsHighestFees ==
    \A num \in 0..MaxSelected :
       LET r == create_body(mempool, ProducerAddress, num)
           fees == HighestFees(mempool, num)
       IN  /\ r[1] = "Ok"
           /\ Len(r[2].transactions) = Min(num, Cardinality(DOMAIN mempool))
           /\ Len(fees) = Len(r[2].transactions)
           /\ \A i \in 1..Len(fees) : r[2].transactions[i] = mempool[fees[i]]
           /\ \A i \in 1..(Len(fees) - 1) : Gt(fees[i], fees[i + 1])
           /\ r[2].coinbase = <<[address |-> ProducerAddress, value |-> MathSum(fees)]>>

\* C18: in every body that create_body returns, the values of the coinbase
\* outputs sum to the sum of get_fee(tx) over the transactions of the body.
C18_CoinbaseEqualsFees ==
    \A num \in 0..MaxSelected :
       LET r == create_body(mempool, ProducerAddress, num)
       IN  r[1] = "Ok" =>
              LET txs == r[2].transactions
              IN  /\ \A i \in 1..Len(txs) : get_fee(chain, txs[i])[1] = "Ok"
                  /\ MathSum(Values(r[2].coinbase)) =
                        MathSum([i \in 1..Len(txs) |-> get_fee(chain, txs[i])[2]])

\* C19: get_deposits processes the reported deposits oldest first with
\* prev_value starting at the total of the last deposit (0 when none): a
\* deposit of burn value v >= prev_value is credited v - prev_value and
\* prev_value becomes v, a deposit of v < prev_value is dropped; the credited
\* values sum to the burn value of the last accepted deposit less the initial
\* prev_value, and burn values 10, 25, 40 after no deposit are credited 10, 15,
\* 15.
C19_IncrementalCredit ==
    \A last_deposit \in LastDeposits, order \in IterationOrders :
       LET r == get_deposits(last_deposit, json_deposits, order)
           initial == InitialPrev(last_deposit)
           n == Len(json_deposits)
       IN  r[1] = "Ok" =>
              /\ DOMAIN r[2].outputs \subseteq {DepositOf(i) : i \in 1..n}
              /\ \A i \in 1..n :
                    IF Gt(PrevAfter(initial, i - 1), BurnOf(i))
                    THEN DepositOf(i) \notin DOMAIN r[2].outputs
                    ELSE /\ DepositOf(i) \in DOMAIN r[2].outputs
                         /\ MathAdd(Credited(r[2], i), PrevAfter(initial, i - 1)) = BurnOf(i)
              /\ MathAdd(MathSum([i \in 1..n |-> Credited(r[2], i)]), initial) =
                    PrevAfter(initial, n)
              /\ (last_deposit = None /\ n = 3
                    /\ [i \in 1..n |-> BurnOf(i)] = <<U64(0, 10), U64(0, 25), U64(0, 40)>>) =>
                    [i \in 1..n |-> Credited(r[2], i)] = <<U64(0, 10), U64(0, 15), U64(0, 15)>>

\* get_deposits has returned a chunk for a reply of three deposits of which it
\* credited one in full, credited one in part and dropped one
C19_Witness ==
    /\ Len(json_deposits) = 3
    /\ returned[1] = "Ok"
    /\ Cardinality(DOMAIN returned[2].outputs) = 2
    /\ \E i, j \in 1..3 :
          /\ i < j
          /\ Credited(returned[2], i) = BurnOf(i)
          /\ Gt(Credited(returned[2], j), Zero64)
          /\ Gt(BurnOf(j), Credited(returned[2], j))

\* C20: when the reported deposits form one spending chain d1 <- d2 <- ... <-
\* dk, sort_deposits returns [d1, ..., dk], each once and with its burn value
\* as total, whatever the iteration order of the map.
C20_SortFollowsSpendingChain ==
    \A q \in DistinctSeqs(ReportedOutPoints, MaxReported) :
       IsSpendingChain(q) =>
          \A order \in IterationOrders :
             sort_deposits(ReportedTxs, order) =
                <<"Ok", [i \in 1..Len(q) |->
                           [outpoint |-> q[i],
                            total |-> BurnValue(ReportedTxs[q[i]], q[i][2])]]>>

\* get_deposits has returned the three deposits of a spending chain in the
\* order of the chain, which is not the order they were processed in
C20_Witness ==
    /\ Len(json_deposits) = 3
    /\ returned[1] = "Ok"
    /\ Len(returned[2].deposits) = 3
    /\ IsSpendingChain([i \in 1..3 |-> returned[2].deposits[i].outpoint])
    /\ [i \in 1..3 |-> returned[2].deposits[i].outpoint] #
          [i \in 1..3 |-> ParentOutPoint(OldestFirst[i].tx.txid, OldestFirst[i].nburnindex)]

\* the reported outpoints whose transaction spends no reported outpoint
ReportedRoots ==
    {o \in ReportedOutPoints : Range(ReportedTxs[o].input) \cap ReportedOutPoints = {}}

\* C21: get_deposits returns an error, and no chunk, for a reply in which more
\* than one deposit spends no other deposit of the reply.
C21_MultiRootRejected ==
    \A last_deposit \in LastDeposits, order \in IterationOrders :
       Cardinality(ReportedRoots) > 1 =>
          get_deposits(last_deposit, json_deposits, order)[1] = "Err"

\* C22: in every chunk that get_deposits returns, the outpoints of the deposits
\* list are the keys of outputs, each listed once.
C22_DepositsListMatchesOutputs ==
    \A last_deposit \in LastDeposits, order \in IterationOrders :
       LET r == get_deposits(last_deposit, json_deposits, order)
       IN  r[1] = "Ok" =>
              /\ {<<"Deposit", r[2].deposits[i].outpoint[1], r[2].deposits[i].outpoint[2]>> :
                    i \in 1..Len(r[2].deposits)} = DOMAIN r[2].outputs
              /\ Len(r[2].deposits) = Cardinality(DOMAIN r[2].outputs)

\* the signed inputs of a transaction: those that have a signature beside them
SignedInputs(tx) == {tx.inputs[i] : i \in 1..Min(Len(tx.inputs), Len(tx.signatures))}

\* C23: validate_transaction yields "output doesn't exist" for a signed input
\* that is a key of none of the three output maps, and yields "output spent"
\* only when a signed input is a key of one of the maps and is not unspent.
C23_UnknownAndSpentDistinct ==
    \A tx \in OfferedTxs(chain) :
       LET r == validate_transaction(chain, tx)
       IN  /\ r = ErrSpent =>
                 \E o \in SignedInputs(tx) :
                    o \in KnownOutPoints(chain) /\ o \notin unspent_outpoints
           /\ (/\ SignedInputs(tx) # {}
               /\ SignedInputs(tx) \cap KnownOutPoints(chain) = {}
               /\ r \notin {ErrValue, "panic"}) => r = ErrUnknown

\* C24: when the value check passes, every earlier signed input passes and a
\* signed input is unspent and refers to an output, a signature that verifies
\* over the signatures-stripped txid under its own public key, whose address
\* is not the address of that output, makes validate_transaction fail with
\* "addresses don't match" and not with "wrong signature".
C24_AddressMismatchNotBadSignature ==
    \A tx \in OfferedTxs(chain) :
       \A i \in 1..Min(Len(tx.inputs), Len(tx.signatures)) :
          (/\ validate_transaction(chain, tx) \notin {ErrValue, "panic"}
           /\ \A j \in 1..(i - 1) :
                 tx.inputs[j] \in unspent_outpoints /\ Authorised(chain, tx, j)
           /\ tx.inputs[i] \in unspent_outpoints
           /\ tx.inputs[i] \in KnownOutPoints(chain)
           /\ is_valid(tx.signatures[i], Txid(without_signatures(tx)))
           /\ get_address(tx.signatures[i]) # ReferencedAddress(chain, tx.inputs[i]))
          => validate_transaction(chain, tx) = ErrAddress

\* a chain with a block and an unspent output, offered a transaction whose
\* second input is signed validly by a key that does not own it
C24_Witness ==
    /\ block_order # <<>>
    /\ \E tx \in OfferedTxs(chain) :
          /\ Len(tx.inputs) = 2
          /\ Len(tx.signatures) = 2
          /\ tx.inputs[1] \in unspent_outpoints /\ Authorised(chain, tx, 1)
          /\ tx.inputs[2] \in unspent_outpoints \cap KnownOutPoints(chain)
          /\ is_valid(tx.signatures[2], Txid(without_signatures(tx)))
          /\ get_address(tx.signatures[2]) # ReferencedAddress(chain, tx.inputs[2])
          /\ validate_transaction(chain, tx) = ErrAddress

-----------------------------------------------------------------------------
\* C25: for every keypair k and every offered transaction t, whatever its
\* signature list holds, Signature::new(k, t) is valid over the txid of t
\* without signatures, and its address is the address of k's public key.
C25_AuthoriseBindsStrippedTxid ==
    \A k \in Keys :
       \A t \in OfferedTxs(chain) :
          /\ is_valid(SignatureNew(k, t), Txid(without_signatures(t)))
          /\ get_address(SignatureNew(k, t)) = Address(k)

-----------------------------------------------------------------------------
\* the i-th oldest reported deposit is one the loop fails on: its nburnindex
\* names no output, or its value is not below prev_value and its strdest is
\* malformed
FailsOn(last_deposit, i) ==
    \/ OldestFirst[i].form = "bad index"
    \/ /\ OldestFirst[i].form \in {"bad address", "short address"}
       /\ ~Gt(PrevAfter(InitialPrev(last_deposit), i - 1), BurnOf(i))

\* C26: get_deposits returns an Err, without aborting, for a reply with a
\* record whose strdest is malformed (base58check failure, or a payload of
\* other than 32 bytes) or whose nburnindex names no output of its transaction.
C26_IngestFailuresAreErr ==
    \A last_deposit \in LastDeposits, order \in IterationOrders :
       (\E i \in 1..Len(json_deposits) : FailsOn(last_deposit, i)) =>
          get_deposits(last_deposit, json_deposits, order)[1] = "Err"

-----------------------------------------------------------------------------
RECURSIVE UndoFromLast(_, _, _)
\* the transactions i, i - 1, ..., 1 of the body undone in that order
UndoFromLast(st, body, i) ==
    IF i = 0 THEN st
    ELSE UndoFromLast(DisconnectTx(st, body.transactions[i]), body, i - 1)

\* the block undone with its transactions taken from last to first
UndoneInReverse(st, header, body) ==
    [UndoFromLast(st, body, Len(body.transactions)) EXCEPT
       !.bodies = RemoveKeys(@, {HeaderHash(header)}),
       !.headers = RemoveKeys(@, {HeaderHash(header)}),
       !.block_order = Pop(@)]

\* C27: for the current tip, a block that passed validate_block when it was
\* connected, disconnect_block leaves the state that undoing the transactions
\* of the body from last to first leaves.
C27_DisconnectIsReverseUndo ==
    HasTip =>
       disconnect_block(chain, headers[Last(block_order)], bodies[Last(block_order)]) =
          UndoneInReverse(chain, headers[Last(block_order)], bodies[Last(block_order)])

-----------------------------------------------------------------------------
RECURSIVE MathTotal(_, _)
\* the sum, over the unbounded integers, of the values of the outputs the
\* outpoints refer to
MathTotal(st, outpoints) ==
    IF outpoints = {} THEN Zero64
    ELSE LET o == CHOOSE outpoint \in outpoints : TRUE
         IN  MathAdd(ReferencedValue(st, o), MathTotal(st, outpoints \ {o}))

\* C28: the values of the outputs whose outpoint is unspent sum to at most the
\* sum of the values of all deposit outputs ever added.
C28_NoInflation ==
    ~Gt(MathTotal(chain, unspent_outpoints), MathTotal(chain, DOMAIN deposit_outputs))

-----------------------------------------------------------------------------
\* C29: once connect_block has run on a validated block, the tip is the hash
\* of its header, and validate_block returns false for the same block and for
\* every other block on the same prev_block_hash; for every body, the one
\* without transactions included.
C29_TipAdvances ==
    \A body \in ProducedBodies(chain, MaxBodyTxs) :
       LET header == HeaderNew(get_best_block_hash(chain), body)
           after == connect_block(chain, header, body)
       IN  validate_block(chain, header, body) =>
              /\ get_best_block_hash(after) = HeaderHash(header)
              /\ ~validate_block(after, header, body)
              /\ \A other \in ProducedBodies(chain, MaxBodyTxs) :
                    ~validate_block(after, HeaderNew(header.prev_block_hash, other), other)

-----------------------------------------------------------------------------
\* the sum, over the unbounded integers, of the input values Output::validate
\* is called with
MathInputs(ins) ==
    MathAdd(MathAdd(MathSum(ins.inputs), MathSum(ins.deposit_inputs)),
            MathSum(ins.withdrawal_inputs))

\* C30: Output::validate reports a violation for every transaction whose
\* output and withdrawal-output values sum, over the unbounded integers, to
\* more than its input values, also when the sums exceed 2^64 - 1; and get_fee
\* of a transaction that passed validation returns a fee with
\* fee + value out = value in, without underflow.
C30_ValueArithmeticSound ==
    \A tx \in OfferedTxs(chain) :
       LET ins == get_inputs(chain, tx)
           sides == ValueSides(ins, tx)
       IN  /\ Gt(MathValueOut(tx), MathInputs(ins)) => OutValidate(ins, tx) = "true"
           /\ validate_transaction(chain, tx) = "ok" =>
                 /\ get_fee(chain, tx)[1] = "Ok"
                 /\ MathAdd(get_fee(chain, tx)[2], sides.out.v) = sides.in.v

-----------------------------------------------------------------------------
\* C31: a call of create_body, and the connection of the block it produced,
\* leave the pool mapping the same fees to the same transactions, so that
\* create_body with the same arguments returns the same body afterwards.
C31_CreateBodyKeepsPool ==
    [][(CreateBody \/ ConnectCandidate) =>
          /\ mempool' = mempool
          /\ \A num \in 0..MaxSelected :
                create_body(mempool', ProducerAddress, num) =
                   create_body(mempool, ProducerAddress, num)]_vars

\* the block of a body of two pool transactions is connected, and create_body
\* on the pool still returns that body
C31_Witness ==
    /\ candidate[1] = "Ok"
    /\ Len(candidate[2].transactions) = 2
    /\ HasTip
    /\ bodies[Last(block_order)] = candidate[2]
    /\ create_body(mempool, ProducerAddress, 2) = candidate

-----------------------------------------------------------------------------
\* C32: sort_deposits returns a list, without a panic and with a walk over
\* spent_by of at most as many steps as the map has entries, for every map:
\* empty, without a root, with several roots, with an outpoint spent twice.
C32_SortDepositsTerminates ==
    \A order \in IterationOrders : sort_deposits(outpoint_to_tx, order)[1] = "Ok"

-----------------------------------------------------------------------------
\* C33: after MainState::connect(header, body), get_withdrawal of the outpoint
\* of index i of the block returns withdrawal i of the body, whatever the
\* iteration order of the set of outpoints, and the outpoint is in
\* refundable_withdrawals unless the body refunds it.
C33_WithdrawalsByPosition ==
    \A header \in MainHeaders, body \in MainBodies :
       \A order \in SetOrders(WithdrawalOutpoints(Hash(header), Len(body.withdrawals))) :
          LET after == MainState_connect(main_state, header, body, order)
          IN  \A i \in 1..Len(body.withdrawals) :
                 LET outpoint == WithdrawalOutpoint(Hash(header), i - 1)
                 IN  /\ get_withdrawal(after, outpoint) = Some(body.withdrawals[i])
                     /\ \/ outpoint \in after.refundable_withdrawals
                        \/ \E j \in 1..Len(body.refund_inputs) :
                              body.refund_inputs[j].outpoint = outpoint

-----------------------------------------------------------------------------
\* no withdrawal outpoint of the chunk is in the state, neither as a key of
\* withdrawals nor in unspent_withdrawal_outputs
NewToState(st, chunk) ==
    DOMAIN chunk.withdrawals \cap
       (DOMAIN st.withdrawals \cup st.unspent_withdrawal_outputs) = {}

\* C34: for every chunk for which validate returns true and whose withdrawal
\* outpoints are not in the state, connect followed by disconnect restores
\* withdrawals, unspent_withdrawal_outputs and unspent_deposit_outputs, and
\* neither step changes deposits or deposits_order.
C34_PegRoundTrip ==
    \A chunk \in PegChunks :
       (TwoWayPegState_validate(peg_state, chunk) /\ NewToState(peg_state, chunk)) =>
          LET connected == TwoWayPegState_connect(peg_state, chunk)
              back == TwoWayPegState_disconnect(connected, chunk)
          IN  /\ back.withdrawals = peg_state.withdrawals
              /\ back.unspent_withdrawal_outputs = peg_state.unspent_withdrawal_outputs
              /\ back.unspent_deposit_outputs = peg_state.unspent_deposit_outputs
              /\ connected.deposits = peg_state.deposits
              /\ connected.deposits_order = peg_state.deposits_order
              /\ back.deposits = peg_state.deposits
              /\ back.deposits_order = peg_state.deposits_order

\* a deposit is connected, and a chunk that creates a withdrawal, refunds
\* another and claims a deposit validates, changes the state when it is
\* connected, and is undone by disconnect
C34_Witness ==
    /\ peg_state.deposits_order # <<>>
    /\ \E chunk \in PegChunks :
          /\ DOMAIN chunk.withdrawals # {}
          /\ chunk.refund_inputs # <<>>
          /\ chunk.deposit_inputs # <<>>
          /\ TwoWayPegState_validate(peg_state, chunk)
          /\ NewToState(peg_state, chunk)
          /\ TwoWayPegState_connect(peg_state, chunk) # peg_state
          /\ TwoWayPegState_disconnect(TwoWayPegState_connect(peg_state, chunk), chunk) = peg_state

=============================================================================
